---- MODULE Spec2Model ----
(***************************************************************************)
(* kectl record / replay: the snapshot saver (Saver.Save, Saver.Record),   *)
(* the replay loader (Loader.Load, Loader.Replay and its scheduler) and    *)
(* the interactive handle, as one state machine.                           *)
(*                                                                         *)
(* Time is counted in milliseconds (Second == 1000).                       *)
(* A JSON object is a function from field names to values; the metadata    *)
(* fields are flattened (name, namespace, resourceVersion).                *)
(* A merge patch is a pair: the fields it sets and the fields it removes   *)
(* (the JSON null directives).                                             *)
(***************************************************************************)
EXTENDS Integers, Sequences, FiniteSets, TLC

(***************************************************************************)
(* Bounds of the model                                                     *)
(***************************************************************************)
\* changes the environment makes to the source store
MaxChanges == 2

(***************************************************************************)
(* Objects, encodings, the resource catalog                                *)
(***************************************************************************)
NoValue == [mt |-> "nil"]
Garbage == [mt |-> "unknown"]

CoreV1 == [g |-> "", v |-> "v1"]
NetV1 == [g |-> "networking.k8s.io", v |-> "v1"]

\* The objects the environment may store: two kinds sharing namespace and
\* name, in three contents each, and a stub without a name.
SrcObjects ==
  { [apiVersion |-> CoreV1, kind |-> "Pod", namespace |-> "d", name |-> "x", spec |-> 1],
    [apiVersion |-> CoreV1, kind |-> "Pod", namespace |-> "d", name |-> "x", spec |-> 2, note |-> "n"],
    [apiVersion |-> CoreV1, kind |-> "Pod", namespace |-> "d", name |-> "x", spec |-> 1, resourceVersion |-> "7"],
    [apiVersion |-> NetV1, kind |-> "Ingress", namespace |-> "d", name |-> "x", spec |-> 1],
    [apiVersion |-> NetV1, kind |-> "Ingress", namespace |-> "d", name |-> "x", spec |-> 2, note |-> "n"] }

GetName(obj) == IF "name" \in DOMAIN obj THEN obj.name ELSE ""
GetNamespace(obj) == IF "namespace" \in DOMAIN obj THEN obj.namespace ELSE ""
GetKind(obj) == IF "kind" \in DOMAIN obj THEN obj.kind ELSE ""
GetAPIVersion(obj) == IF "apiVersion" \in DOMAIN obj THEN obj.apiVersion ELSE [g |-> "", v |-> ""]
GroupVersionKind(obj) ==
  [Group |-> GetAPIVersion(obj).g, Version |-> GetAPIVersion(obj).v, Kind |-> GetKind(obj)]

\* obj.SetResourceVersion(""): the field is removed
SetResourceVersionEmpty(obj) == [k \in DOMAIN obj \ {"resourceVersion"} |-> obj[k]]

KRef(namespace, name) == [Name |-> name, Namespace |-> namespace]
KObj(obj) == [Name |-> GetName(obj), Namespace |-> GetNamespace(obj)]

\* strings.ToLower on the kinds of the model
ToLower(s) ==
  CASE s = "Pod" -> "pod"
    [] s = "Ingress" -> "ingress"
    [] OTHER -> s

\* pkg/wellknown: the generated table {Names: canonical, singular, short names}
resources ==
  << [Names |-> <<"ingresses", "ingress", "ing">>, Namespaced |-> TRUE, Group |-> "networking.k8s.io"],
     [Names |-> <<"pods", "pod", "po">>, Namespaced |-> TRUE, Group |-> ""] >>

\* wellknown.CorrectGroupResource: case-insensitive lookup of the alias among
\* the names of a resource; the group constrains the lookup when it is given.
CorrectGroupResource(gr) ==
  LET hit == { i \in DOMAIN resources :
                 /\ \E j \in DOMAIN resources[i].Names : resources[i].Names[j] = ToLower(gr.Resource)
                 /\ (gr.Group = "" \/ resources[i].Group = gr.Group) }
  IN  IF hit = {}
      THEN [ok |-> FALSE, Group |-> gr.Group, Resource |-> gr.Resource]
      ELSE LET i == CHOOSE i \in hit : \A j \in hit : i <= j
           IN  [ok |-> TRUE, Group |-> resources[i].Group, Resource |-> resources[i].Names[1]]

\* encoding.DetectMediaType: the encoding the bytes carry, or an error
DetectMediaType(value) ==
  IF value.mt \in {"protobuf", "json", "yaml"} THEN [ok |-> TRUE, mt |-> value.mt] ELSE [ok |-> FALSE, mt |-> ""]

\* encoding.Convert: the same object in the other encoding
Convert(from, to, value) == [mt |-> to, data |-> value.data]

\* encoding.MediaTypeFromGVR: protobuf for the groups the codecs know
MediaTypeFromGVR(gvr) ==
  IF gvr.Group \in {"", "networking.k8s.io"} THEN "protobuf" ELSE "json"

\* strategicpatch.CreateTwoWayMergePatch on flat objects
CreateTwoWayMergePatch(original, modified) ==
  [set |-> [k \in {f \in DOMAIN modified : f \notin DOMAIN original \/ original[f] # modified[f]} |-> modified[k]],
   del |-> DOMAIN original \ DOMAIN modified]

\* strategicpatch.StrategicMergeMapPatch on flat objects
StrategicMergeMapPatch(original, patch) ==
  [k \in (DOMAIN original \ patch.del) \cup DOMAIN patch.set |->
     IF k \in DOMAIN patch.set THEN patch.set[k] ELSE original[k]]

(***************************************************************************)
(* The KV store: keys are (group, resource, namespace, name)               *)
(***************************************************************************)
StoreKey(gr, name, namespace) ==
  [Group |-> gr.Group, Resource |-> gr.Resource, Namespace |-> namespace, Name |-> name]

GroupResource(gvr) == [Group |-> gvr.Group, Resource |-> gvr.Resource]

KPod == [Group |-> "", Resource |-> "pods", Namespace |-> "d", Name |-> "x"]
KIngress == [Group |-> "networking.k8s.io", Resource |-> "ingresses", Namespace |-> "d", Name |-> "x"]
KStub == [Group |-> "", Resource |-> "pods", Namespace |-> "d", Name |-> "y"]

\* the keys of the source store in the order a range read returns them
SrcKeySeq == <<KIngress, KPod, KStub>>

\* what the API server stores: protobuf, and JSON for one of the contents
StoredBytes(obj) ==
  [mt |-> IF GetKind(obj) = "Ingress" /\ obj.spec = 2 THEN "json" ELSE "protobuf", data |-> obj]

\* the writes the environment may make: every object under the key of its
\* resource, bytes that do not decode, and an entry whose object has no name
SrcWrites ==
  { [Key |-> IF GetKind(o) = "Pod" THEN KPod ELSE KIngress, Value |-> StoredBytes(o)] : o \in SrcObjects }
    \cup { [Key |-> KPod, Value |-> Garbage],
           [Key |-> KStub, Value |-> [mt |-> "protobuf",
                                      data |-> [apiVersion |-> CoreV1, kind |-> "Pod", namespace |-> "d", spec |-> 1]]] }

VARIABLES
  src,          \* source store: key -> bytes
  srcRev,       \* revision of the source store
  events,       \* the changes of the source store, in revision order
  snapshotOnly, \* flag --snapshot of record and replay
  spc,          \* where the record command is
  rev,          \* Saver.rev
  track,        \* Saver.track
  baseTime,     \* Saver.baseTime, 0 is the zero time
  sclock,       \* the saver's clock
  wpos,         \* the next event the watch delivers
  out           \* the documents written to the stream

saverVars == <<src, srcRev, events, snapshotOnly, spc, rev, track, baseTime, sclock, wpos, out>>

VARIABLES
  input,        \* the stream the replay command reads
  in,           \* the documents the decoder has not returned yet
  lpc,          \* where the replay command is
  ret,          \* the loop of Replay that called handleResourcePatch
  tgt,          \* target store: key -> bytes
  tracksData,   \* Loader.tracksData: <<gvr, ref>> -> JSON
  heap,         \* the reorder heap of Replay
  cur,          \* the patch handleResourcePatch works on
  d,            \* handleResourcePatch: the time left to sleep
  dur,          \* Replay: dur, the duration applied last
  sleeps,       \* the sleeps made for cur: nominal and actual length
  applyOps,     \* the store operations of the last apply
  applied,      \* the durations of the patches given to applyResourcePatch
  handle,       \* Loader.handle is set (the command runs in a terminal)
  pause,        \* Handle.pause
  speed,        \* Handle.speed
  ipc,          \* where Handle.Input is
  iloaded,      \* Handle.Input: the speed SpeedUp / SpeedDown loaded
  sloaded,      \* scheduler: the speed its SpeedDown loaded
  keys,         \* keys Handle.Input may still read
  ctxDone,      \* the context of the replay command is cancelled
  faults,       \* the operations the target store may still fail
  slow,         \* an apply may take time
  elapsed,      \* the time Replay has spent in pacing sleeps and in applies
  busy          \* the time Replay has spent in applies

loaderVars == <<input, in, lpc, ret, tgt, tracksData, heap, cur, d, dur, sleeps, applyOps, applied,
                handle, pause, speed, ipc, iloaded, sloaded, keys, ctxDone, faults, slow, elapsed, busy>>

VARIABLES
  gflags,       \* getFlagpole: Watch, WatchOnly, Output
  gpc,          \* where the get command is
  greqs,        \* the requests the get command has issued to the store
  gq,           \* the key-values of the running Get not yet given to the callback
  grev,         \* getCommand: rev
  gwpos,        \* the next event the watch of the get command delivers
  printed       \* what the printer has written to the standard output

getVars == <<gflags, gpc, greqs, gq, grev, gwpos, printed>>

vars == <<saverVars, loaderVars, getVars>>

ResourcePatchType == [Kind |-> "ResourcePatch", APIVersion |-> [g |-> "action.kectl.io", v |-> "v1alpha1"]]

EmptyTemplate == [empty |-> TRUE]

IsResourcePatch(doc) ==
  GetKind(doc) = ResourcePatchType.Kind /\ GetAPIVersion(doc) = ResourcePatchType.APIVersion

\* a document of the stream that is not YAML: DecodeUnstructured fails on it
Undecodable == [malformed |-> TRUE]

\* decoder.DecodeUnstructured returns the document
Decodes(doc) == doc # Undecodable

\* yaml.Convert[handle.ResourcePatch]: the fields have the types of the
\* struct; a duration that is no number is the field durationText here
Converts(doc) == "durationNanosecond" \in DOMAIN doc

(***************************************************************************)
(* Saver                                                                   *)
(***************************************************************************)
save_KeepsNameless(st, kv) ==
  LET value == IF kv.Value = NoValue THEN kv.PrevValue ELSE kv.Value
      det == DetectMediaType(value)
  IN  IF ~det.ok
      THEN [st EXCEPT !.err = TRUE]
      ELSE LET data == Convert(det.mt, "json", value).data
               obj == data
           IN  [st EXCEPT !.out = Append(@, obj),
                          !.track = (KObj(obj) :> data) @@ @]

\* Saver.save: st is [out, track, err]
save(st, kv) ==
  LET value == IF kv.Value = NoValue THEN kv.PrevValue ELSE kv.Value
      det == DetectMediaType(value)
  IN  IF ~det.ok
      THEN [st EXCEPT !.err = TRUE]
      ELSE LET data == Convert(det.mt, "json", value).data
               obj == data
           IN  IF GetName(obj) = ""
               THEN st
               ELSE [st EXCEPT !.out = Append(@, obj),
                               !.track = (KObj(obj) :> data) @@ @]

\* client.Get over the whole prefix: the callback runs on every key-value in
\* key order and the first error ends the scan
RECURSIVE Scan(_, _, _)
Scan(store, i, st) ==
  IF i > Len(SrcKeySeq) \/ st.err
  THEN st
  ELSE Scan(store, i + 1,
            IF SrcKeySeq[i] \in DOMAIN store
            THEN save(st, [Key |-> SrcKeySeq[i], Value |-> store[SrcKeySeq[i]], PrevValue |-> NoValue])
            ELSE st)

\* ResourcePatch.SetDelete: r is [rp, track]
SetDelete(r, obj) ==
  [rp |-> [r.rp EXCEPT !.method = "delete", !.template = EmptyTemplate],
   track |-> [k \in DOMAIN r.track \ {KObj(obj)} |-> r.track[k]]]

SetContent_StaleTrack(r, obj) ==
  LET key == KObj(obj)
      modified == SetResourceVersionEmpty(obj)
  IN  IF key \notin DOMAIN r.track
      THEN [rp |-> [r.rp EXCEPT !.method = "create", !.template = modified],
            track |-> (key :> modified) @@ r.track]
      ELSE [rp |-> [r.rp EXCEPT !.method = "patch",
                                !.template = CreateTwoWayMergePatch(r.track[key], modified)],
            track |-> r.track]

\* ResourcePatch.SetContent
SetContent(r, obj) ==
  LET key == KObj(obj)
      modified == SetResourceVersionEmpty(obj)
  IN  IF key \notin DOMAIN r.track
      THEN [rp |-> [r.rp EXCEPT !.method = "create", !.template = modified],
            track |-> (key :> modified) @@ r.track]
      ELSE [rp |-> [r.rp EXCEPT !.method = "patch",
                                !.template = CreateTwoWayMergePatch(r.track[key], modified)],
            track |-> (key :> modified) @@ r.track]

\* the resource name buildResourcePatch derives from the kind
PluralizeKind(kind) == ToLower(kind) \o "s"

SinceBase_OfZeroTime(base, now) == now - base

\* Saver.buildResourcePatch: the duration of the patch, zero for the patch
\* that sets the base time
SinceBase(base, now) == IF base = 0 THEN 0 ELSE now - base

buildResourcePatch_SkipsDeletes(kv, trk, base, now) ==
  LET lastValue == IF kv.Value = NoValue THEN kv.PrevValue ELSE kv.Value
      det == DetectMediaType(lastValue)
  IN  IF ~det.ok
      THEN [err |-> TRUE, rp |-> NoValue, track |-> trk, baseTime |-> base]
      ELSE LET obj == Convert(det.mt, "json", lastValue).data
               gvk == GroupVersionKind(obj)
               gvr == [Group |-> gvk.Group, Version |-> gvk.Version, Resource |-> PluralizeKind(gvk.Kind)]
               rp0 == [kind |-> ResourcePatchType.Kind, apiVersion |-> ResourcePatchType.APIVersion,
                       resource |-> gvr,
                       target |-> [Name |-> GetName(obj), Namespace |-> GetNamespace(obj)],
                       method |-> "", template |-> EmptyTemplate,
                       durationNanosecond |-> SinceBase(base, now)]
               r == IF kv.Value # NoValue
                    THEN SetContent([rp |-> rp0, track |-> trk], obj)
                    ELSE SetDelete([rp |-> rp0, track |-> trk], obj)
           IN  IF GetName(obj) = "" \/ kv.Value = NoValue
               THEN [err |-> FALSE, rp |-> NoValue, track |-> trk, baseTime |-> base]
               ELSE [err |-> FALSE, rp |-> r.rp, track |-> r.track,
                     baseTime |-> IF base = 0 THEN now ELSE base]

\* Saver.buildResourcePatch at clock time now: [err, rp (or NoValue), track, baseTime]
buildResourcePatch(kv, trk, base, now) ==
  LET lastValue == IF kv.Value = NoValue THEN kv.PrevValue ELSE kv.Value
      det == DetectMediaType(lastValue)
  IN  IF ~det.ok
      THEN [err |-> TRUE, rp |-> NoValue, track |-> trk, baseTime |-> base]
      ELSE LET obj == Convert(det.mt, "json", lastValue).data
               gvk == GroupVersionKind(obj)
               gvr == [Group |-> gvk.Group, Version |-> gvk.Version, Resource |-> PluralizeKind(gvk.Kind)]
               rp0 == [kind |-> ResourcePatchType.Kind, apiVersion |-> ResourcePatchType.APIVersion,
                       resource |-> gvr,
                       target |-> [Name |-> GetName(obj), Namespace |-> GetNamespace(obj)],
                       method |-> "", template |-> EmptyTemplate,
                       durationNanosecond |-> SinceBase(base, now)]
               r == IF kv.Value # NoValue
                    THEN SetContent([rp |-> rp0, track |-> trk], obj)
                    ELSE SetDelete([rp |-> rp0, track |-> trk], obj)
           IN  IF GetName(obj) = ""
               THEN [err |-> FALSE, rp |-> NoValue, track |-> trk, baseTime |-> base]
               ELSE [err |-> FALSE, rp |-> r.rp, track |-> r.track,
                     baseTime |-> IF base = 0 THEN now ELSE base]

\* the environment writes a value to the source store
SrcPut ==
  /\ spc \in {"start", "record"}
  /\ Len(events) < MaxChanges
  /\ \E w \in SrcWrites :
       /\ src' = (w.Key :> w.Value) @@ src
       /\ events' = Append(events, [Key |-> w.Key, Value |-> w.Value,
                                    PrevValue |-> IF w.Key \in DOMAIN src THEN src[w.Key] ELSE NoValue,
                                    ModRevision |-> srcRev + 1])
  /\ srcRev' = srcRev + 1
  /\ UNCHANGED <<snapshotOnly, spc, rev, track, baseTime, sclock, wpos, out>>
  /\ UNCHANGED <<loaderVars, getVars>>

\* the environment deletes a key of the source store
SrcDelete ==
  /\ spc \in {"start", "record"}
  /\ Len(events) < MaxChanges
  /\ \E k \in DOMAIN src :
       /\ src' = [j \in DOMAIN src \ {k} |-> src[j]]
       /\ events' = Append(events, [Key |-> k, Value |-> NoValue, PrevValue |-> src[k],
                                    ModRevision |-> srcRev + 1])
  /\ srcRev' = srcRev + 1
  /\ UNCHANGED <<snapshotOnly, spc, rev, track, baseTime, sclock, wpos, out>>
  /\ UNCHANGED <<loaderVars, getVars>>

\* the first event with a revision at or after r
WatchFrom(r) ==
  IF \E i \in DOMAIN events : events[i].ModRevision >= r
  THEN CHOOSE i \in DOMAIN events :
         /\ events[i].ModRevision >= r
         /\ \A j \in DOMAIN events : events[j].ModRevision >= r => i <= j
  ELSE Len(events) + 1

\* Saver.Save, and recordCommand up to the start of Record
Save ==
  /\ spc = "start"
  /\ LET st == Scan(src, 1, [out |-> out, track |-> track, err |-> FALSE])
     IN  /\ out' = st.out
         /\ track' = st.track
         /\ rev' = IF st.err THEN rev ELSE srcRev
         /\ spc' = IF st.err THEN "failed" ELSE IF snapshotOnly THEN "stopped" ELSE "record"
         /\ wpos' = IF st.err THEN wpos ELSE WatchFrom(srcRev)
  /\ UNCHANGED <<src, srcRev, events, snapshotOnly, baseTime, sclock>>
  /\ UNCHANGED <<loaderVars, getVars>>

\* Saver.Record: the callback of the watch on one event
Record ==
  /\ spc = "record"
  /\ wpos <= Len(events)
  /\ \E dt \in {0, 1500} :
       LET now == sclock + dt
           r == buildResourcePatch(events[wpos], track, baseTime, now)
       IN  /\ sclock' = now
           /\ track' = r.track
           /\ baseTime' = r.baseTime
           /\ out' = IF r.err \/ r.rp = NoValue THEN out ELSE Append(out, r.rp)
           /\ spc' = IF r.err THEN "failed" ELSE spc
           /\ wpos' = wpos + 1
  /\ UNCHANGED <<src, srcRev, events, snapshotOnly, rev>>
  /\ UNCHANGED <<loaderVars, getVars>>

\* the recording is stopped once the watch has delivered every change
StopRecord ==
  /\ spc = "record"
  /\ wpos > Len(events)
  /\ spc' = "stopped"
  /\ UNCHANGED <<src, srcRev, events, snapshotOnly, rev, track, baseTime, sclock, wpos, out>>
  /\ UNCHANGED <<loaderVars, getVars>>

(***************************************************************************)
(* Loader: the store operations.  L is [store, tracks, ops, err]; oks says *)
(* for each operation of the client whether it succeeds.                   *)
(***************************************************************************)
Second == 1000

\* capacity of the reorder window (1024 in Loader.Replay), scaled down
W == 3

\* the highest speed of the handle
MaxSpeed == 10

JSONBytes(data) == [mt |-> "json", data |-> data]

\* Scheme.ObjectKinds, Scheme.New: the kinds registered in the scheme
SchemeKnows(gvk) == gvk.Kind \in {"Pod", "Ingress"}

putData_CachesInput(L, gvr, obj, oks) ==
  LET mediaType == MediaTypeFromGVR(gvr)
      data == SetResourceVersionEmpty(obj)
      dataStore == IF mediaType # "json"
                   THEN Convert("json", mediaType, JSONBytes(data))
                   ELSE JSONBytes(data)
      key == KObj(obj)
      skey == StoreKey(GroupResource(gvr), key.Name, key.Namespace)
      op == [op |-> "put", key |-> skey, value |-> dataStore, ok |-> oks.put]
  IN  IF ~oks.put
      THEN [L EXCEPT !.ops = Append(@, op), !.err = TRUE]
      ELSE [L EXCEPT !.ops = Append(@, op),
                     !.store = (skey :> dataStore) @@ @,
                     !.tracks = (<<gvr, key>> :> obj) @@ @]

\* Loader.putData
putData(L, gvr, obj, oks) ==
  LET mediaType == MediaTypeFromGVR(gvr)
      data == SetResourceVersionEmpty(obj)
      dataStore == IF mediaType # "json"
                   THEN Convert("json", mediaType, JSONBytes(data))
                   ELSE JSONBytes(data)
      key == KObj(obj)
      skey == StoreKey(GroupResource(gvr), key.Name, key.Namespace)
      op == [op |-> "put", key |-> skey, value |-> dataStore, ok |-> oks.put]
  IN  IF ~oks.put
      THEN [L EXCEPT !.ops = Append(@, op), !.err = TRUE]
      ELSE [L EXCEPT !.ops = Append(@, op),
                     !.store = (skey :> dataStore) @@ @,
                     !.tracks = (<<gvr, key>> :> data) @@ @]

\* Loader.patchData; the template of a patch is a merge patch or does not parse
patchData(L, gvr, obj, template, oks) ==
  LET mediaType == MediaTypeFromGVR(gvr)
      data == StrategicMergeMapPatch(obj, template)
      dataStore == IF mediaType # "json"
                   THEN Convert("json", mediaType, JSONBytes(data))
                   ELSE JSONBytes(data)
      key == KObj(obj)
      skey == StoreKey(GroupResource(gvr), key.Name, key.Namespace)
      op == [op |-> "put", key |-> skey, value |-> dataStore, ok |-> oks.put]
  IN  IF ~SchemeKnows(GroupVersionKind(obj)) \/ DOMAIN template # {"set", "del"}
      THEN [L EXCEPT !.err = TRUE]
      ELSE IF ~oks.put
      THEN [L EXCEPT !.ops = Append(@, op), !.err = TRUE]
      ELSE [L EXCEPT !.ops = Append(@, op),
                     !.store = (skey :> dataStore) @@ @,
                     !.tracks = (<<gvr, key>> :> data) @@ @]

\* Loader.delData
delData(L, gvr, name, namespace, oks) ==
  LET skey == StoreKey(GroupResource(gvr), name, namespace)
      op == [op |-> "delete", key |-> skey, value |-> NoValue, ok |-> oks.del]
      key == KRef(namespace, name)
  IN  IF ~oks.del
      THEN [L EXCEPT !.ops = Append(@, op), !.err = TRUE]
      ELSE [L EXCEPT !.ops = Append(@, op),
                     !.store = [k \in DOMAIN @ \ {skey} |-> @[k]],
                     !.tracks = [k \in DOMAIN @ \ {<<gvr, key>>} |-> @[k]]]

getData_IgnoresMissing(L, gvr, name, namespace, oks) ==
  LET skey == StoreKey(GroupResource(gvr), name, namespace)
      op == [op |-> "get", key |-> skey, value |-> NoValue, ok |-> oks.get]
      L1 == [L EXCEPT !.ops = Append(@, op)]
      mediaType == MediaTypeFromGVR(gvr)
  IN  IF ~oks.get
      THEN [L |-> L1, ok |-> FALSE, data |-> NoValue]
      ELSE IF skey \notin DOMAIN L.store
      THEN [L |-> L1, ok |-> TRUE, data |-> NoValue]
      ELSE IF L.store[skey].mt # mediaType
      THEN [L |-> L1, ok |-> FALSE, data |-> NoValue]
      ELSE [L |-> L1, ok |-> TRUE, data |-> Convert(mediaType, "json", L.store[skey]).data]

\* Loader.getData: [L, ok, data]
getData(L, gvr, name, namespace, oks) ==
  LET skey == StoreKey(GroupResource(gvr), name, namespace)
      op == [op |-> "get", key |-> skey, value |-> NoValue, ok |-> oks.get]
      L1 == [L EXCEPT !.ops = Append(@, op)]
      mediaType == MediaTypeFromGVR(gvr)
  IN  IF ~oks.get \/ skey \notin DOMAIN L.store
      THEN [L |-> L1, ok |-> FALSE, data |-> NoValue]
      ELSE IF L.store[skey].mt # mediaType
      THEN [L |-> L1, ok |-> FALSE, data |-> NoValue]
      ELSE [L |-> L1, ok |-> TRUE, data |-> Convert(mediaType, "json", L.store[skey]).data]

applyResourceGVR_Pluralized(obj) ==
  LET gvk == GroupVersionKind(obj)
  IN  [ok |-> TRUE, Group |-> gvk.Group, Version |-> gvk.Version, Resource |-> PluralizeKind(gvk.Kind)]

\* the group/version/resource Loader.applyResource stores a snapshot object under
applyResourceGVR(obj) ==
  LET gvk == GroupVersionKind(obj)
      gr == CorrectGroupResource([Group |-> gvk.Group, Resource |-> gvk.Kind])
  IN  [ok |-> gr.ok, Group |-> gvk.Group, Version |-> gvk.Version, Resource |-> gr.Resource]

\* Loader.applyResource
applyResource(L, obj, oks) ==
  LET g == applyResourceGVR(obj)
      gvr == [Group |-> g.Group, Version |-> g.Version, Resource |-> g.Resource]
  IN  IF ~g.ok THEN [L EXCEPT !.err = TRUE] ELSE putData(L, gvr, obj, oks)

applyResourcePatch_AlwaysGet(L, resourcePatch, oks) ==
  LET gvr == resourcePatch.resource
      name == resourcePatch.target.Name
      namespace == resourcePatch.target.Namespace
      key == KRef(namespace, name)
      g == getData(L, gvr, name, namespace, oks)
  IN  CASE resourcePatch.method = "delete" ->
             delData(L, gvr, name, namespace, oks)
        [] resourcePatch.method = "create" ->
             IF "kind" \notin DOMAIN resourcePatch.template
             THEN [L EXCEPT !.err = TRUE]
             ELSE putData(L, gvr, resourcePatch.template, oks)
        [] resourcePatch.method = "patch" ->
             IF ~g.ok
             THEN [g.L EXCEPT !.err = TRUE]
             ELSE patchData([g.L EXCEPT !.tracks = (<<gvr, key>> :> g.data) @@ @],
                            gvr, g.data, resourcePatch.template, oks)
        [] OTHER -> L

\* Loader.applyResourcePatch
applyResourcePatch(L, resourcePatch, oks) ==
  LET gvr == resourcePatch.resource
      name == resourcePatch.target.Name
      namespace == resourcePatch.target.Namespace
      key == KRef(namespace, name)
  IN  CASE resourcePatch.method = "delete" ->
             delData(L, gvr, name, namespace, oks)
        [] resourcePatch.method = "create" ->
             IF "kind" \notin DOMAIN resourcePatch.template
             THEN [L EXCEPT !.err = TRUE]
             ELSE putData(L, gvr, resourcePatch.template, oks)
        [] resourcePatch.method = "patch" ->
             IF <<gvr, key>> \in DOMAIN L.tracks
             THEN patchData(L, gvr, L.tracks[<<gvr, key>>], resourcePatch.template, oks)
             ELSE LET g == getData(L, gvr, name, namespace, oks)
                  IN  IF ~g.ok
                      THEN [g.L EXCEPT !.err = TRUE]
                      ELSE patchData([g.L EXCEPT !.tracks = (<<gvr, key>> :> g.data) @@ @],
                                     gvr, g.data, resourcePatch.template, oks)
        [] OTHER -> L

(***************************************************************************)
(* The reorder heap (pkg/utils/heap): a minimum queue on the duration      *)
(***************************************************************************)
Push(h, rp) == Append(h, rp)

\* the entries Pop may return: those of the least duration
MinIdx(h) == { i \in DOMAIN h : \A j \in DOMAIN h : h[i].durationNanosecond <= h[j].durationNanosecond }

Remove(h, i) == SubSeq(h, 1, i - 1) \o SubSeq(h, i + 1, Len(h))

WindowFull_OneEarly(h) == Len(h) >= W - 1

WindowFull_OneLate(h) == Len(h) >= W + 1

\* Loader.Replay: the heap has reached the size at which it gives a patch out
WindowFull(h) == Len(h) >= W

(***************************************************************************)
(* Loader: Load, Replay, the scheduler                                     *)
(***************************************************************************)
AllOk == [get |-> TRUE, put |-> TRUE, del |-> TRUE]

\* what the client may answer: at most one operation of an apply fails; a
\* client that is given a cancelled context may refuse the operation
Oks ==
  IF faults > 0 \/ ctxDone
  THEN {AllOk, [AllOk EXCEPT !.get = FALSE], [AllOk EXCEPT !.put = FALSE], [AllOk EXCEPT !.del = FALSE]}
  ELSE {AllOk}

Failed(ops) == IF faults > 0 THEN Cardinality({ i \in DOMAIN ops : ~ops[i].ok }) ELSE 0

LState == [store |-> tgt, tracks |-> tracksData, ops |-> << >>, err |-> FALSE]

\* where handleResourcePatch goes with t left to sleep
AfterSleep_AlwaysPolls(t) == IF t > 0 THEN "pauseInLoop" ELSE "pauseFinal"

AfterSleep(t) ==
  IF t > 0
  THEN IF handle THEN "pauseInLoop" ELSE "step"
  ELSE IF handle THEN "pauseFinal" ELSE "apply"

\* replayCommand opens the stream the record command wrote
StartReplay ==
  /\ spc = "stopped"
  /\ lpc = "idle"
  /\ input' = out
  /\ in' = out
  /\ lpc' = "load"
  /\ UNCHANGED <<ret, tgt, tracksData, heap, cur, d, dur, sleeps, applyOps, applied,
                 handle, pause, speed, ipc, iloaded, sloaded, keys, ctxDone, faults, slow, elapsed, busy>>
  /\ UNCHANGED <<saverVars, getVars>>

LoadStops_Never(doc) == FALSE

\* Loader.Load: the document is left to Replay
LoadStops(doc) == IsResourcePatch(doc)

\* Loader.Load: one turn of its loop
Load ==
  /\ lpc = "load"
  /\ IF ctxDone \/ in = << >> \/ (Decodes(Head(in)) /\ LoadStops(Head(in)))
     THEN /\ lpc' = IF snapshotOnly THEN "done" ELSE "read"
          /\ UNCHANGED <<in, tgt, tracksData, applyOps, faults>>
     ELSE IF ~Decodes(Head(in))
     THEN /\ in' = Tail(in)
          /\ applyOps' = << >>
          /\ UNCHANGED <<lpc, tgt, tracksData, faults>>
     ELSE \E oks \in Oks :
            LET L == applyResource(LState, Head(in), oks)
            IN  /\ in' = Tail(in)
                /\ tgt' = L.store
                /\ tracksData' = L.tracks
                /\ applyOps' = L.ops
                /\ faults' = faults - Failed(L.ops)
                /\ lpc' = lpc
  /\ UNCHANGED <<input, ret, heap, cur, d, dur, sleeps, applied,
                 handle, pause, speed, ipc, iloaded, sloaded, keys, ctxDone, slow, elapsed, busy>>
  /\ UNCHANGED <<saverVars, getVars>>

Unexpected_Never(doc) == FALSE

\* Loader.Replay: the document is not a ResourcePatch ("unexpected object")
Unexpected(doc) == ~IsResourcePatch(doc)

\* Loader.Replay: one turn of the loop that reads the stream
ReplayRead ==
  /\ lpc = "read"
  /\ IF ctxDone
     THEN lpc' = "done" /\ UNCHANGED <<in, heap, cur, ret>>
     ELSE IF in = << >>
     THEN lpc' = "flush" /\ UNCHANGED <<in, heap, cur, ret>>
     ELSE IF ~Decodes(Head(in)) \/ Unexpected(Head(in))
     THEN in' = Tail(in) /\ UNCHANGED <<lpc, heap, cur, ret>>
     ELSE IF ~Converts(Head(in))
     THEN in' = Tail(in) /\ lpc' = "failed" /\ UNCHANGED <<heap, cur, ret>>
     ELSE LET h == Push(heap, Head(in))
          IN  /\ in' = Tail(in)
              /\ IF WindowFull(h)
                 THEN \E i \in MinIdx(h) :
                        /\ cur' = h[i]
                        /\ heap' = Remove(h, i)
                        /\ lpc' = "hrp"
                        /\ ret' = "read"
                 ELSE heap' = h /\ UNCHANGED <<lpc, cur, ret>>
  /\ UNCHANGED <<input, tgt, tracksData, d, dur, sleeps, applyOps, applied,
                 handle, pause, speed, ipc, iloaded, sloaded, keys, ctxDone, faults, slow, elapsed, busy>>
  /\ UNCHANGED <<saverVars, getVars>>

\* Loader.Replay: one turn of the loop that flushes the heap
Flush ==
  /\ lpc = "flush"
  /\ IF ctxDone \/ heap = << >>
     THEN lpc' = "done" /\ UNCHANGED <<heap, cur, ret>>
     ELSE \E i \in MinIdx(heap) :
            /\ cur' = heap[i]
            /\ heap' = Remove(heap, i)
            /\ lpc' = "hrp"
            /\ ret' = "flush"
  /\ UNCHANGED <<input, in, tgt, tracksData, d, dur, sleeps, applyOps, applied,
                 handle, pause, speed, ipc, iloaded, sloaded, keys, ctxDone, faults, slow, elapsed, busy>>
  /\ UNCHANGED <<saverVars, getVars>>

Switch_NoAdvance(t, last, hasHandle) ==
  IF t - last > 0
  THEN [d |-> t - last, dur |-> last, speedDown |-> FALSE]
  ELSE IF t - last < (-1) * Second
  THEN [d |-> 0, dur |-> IF hasHandle THEN t ELSE last, speedDown |-> hasHandle]
  ELSE [d |-> 0, dur |-> last, speedDown |-> FALSE]

Switch_LateAlwaysResets(t, last, hasHandle) ==
  IF t - last > 0
  THEN [d |-> t - last, dur |-> t, speedDown |-> FALSE]
  ELSE IF t - last < (-1) * Second
  THEN [d |-> 0, dur |-> t, speedDown |-> hasHandle]
  ELSE [d |-> 0, dur |-> last, speedDown |-> FALSE]

Switch_CoincidentAdvances(t, last, hasHandle) ==
  IF t - last > 0
  THEN [d |-> t - last, dur |-> t, speedDown |-> FALSE]
  ELSE IF t - last < (-1) * Second
  THEN [d |-> 0, dur |-> IF hasHandle THEN t ELSE last, speedDown |-> hasHandle]
  ELSE [d |-> 0, dur |-> t, speedDown |-> FALSE]

\* Loader.handleResourcePatch: the switch on d = t - last, which gives the time
\* to sleep, the new value of dur and whether Handle.SpeedDown is called
Switch(t, last, hasHandle) ==
  IF t - last > 0
  THEN [d |-> t - last, dur |-> t, speedDown |-> FALSE]
  ELSE IF t - last < (-1) * Second
  THEN [d |-> 0, dur |-> IF hasHandle THEN t ELSE last, speedDown |-> hasHandle]
  ELSE [d |-> 0, dur |-> last, speedDown |-> FALSE]

\* Loader.handleResourcePatch: the switch on d
HandleEnter ==
  /\ lpc = "hrp"
  /\ LET sw == Switch(cur.durationNanosecond, dur, handle)
     IN  IF sw.speedDown
         THEN sloaded' = speed /\ d' = 0 /\ lpc' = "speedDown" /\ UNCHANGED dur
         ELSE dur' = sw.dur /\ d' = sw.d /\ lpc' = AfterSleep(sw.d) /\ UNCHANGED sloaded
  /\ sleeps' = << >>
  /\ UNCHANGED <<input, in, ret, tgt, tracksData, heap, cur, applyOps, applied,
                 handle, pause, speed, ipc, iloaded, keys, ctxDone, faults, slow, elapsed, busy>>
  /\ UNCHANGED <<saverVars, getVars>>

\* Speed.Up and Speed.Down
Up(s) == s + 1
Down(s) == s - 1

SpeedUp_NoCap(s, current) == Up(s)

\* Handle.SpeedUp after its load of s: the speed it leaves
SpeedUp(s, current) == IF Up(s) <= MaxSpeed THEN Up(s) ELSE current

\* Handle.SpeedDown after its load of s: the speed it leaves
SpeedDown(s, current) == IF Down(s) # 0 THEN Down(s) ELSE current

\* Loader.handleResourcePatch: the store of Handle.SpeedDown, and dur
SchedSpeedDown ==
  /\ lpc = "speedDown"
  /\ speed' = SpeedDown(sloaded, speed)
  /\ dur' = Switch(cur.durationNanosecond, dur, handle).dur
  /\ lpc' = AfterSleep(0)
  /\ UNCHANGED <<input, in, ret, tgt, tracksData, heap, cur, d, sleeps, applyOps, applied,
                 handle, pause, ipc, iloaded, sloaded, keys, ctxDone, faults, slow, elapsed, busy>>
  /\ UNCHANGED <<saverVars, getVars>>

\* Loader.handlePause: one turn of its loop
HandlePause ==
  /\ lpc \in {"pauseInLoop", "pauseFinal"}
  /\ IF pause /\ ~ctxDone
     THEN lpc' = lpc
     ELSE lpc' = IF lpc = "pauseInLoop" THEN "step" ELSE "apply"
  /\ UNCHANGED <<input, in, ret, tgt, tracksData, heap, cur, d, dur, sleeps, applyOps, applied,
                 handle, pause, speed, ipc, iloaded, sloaded, keys, ctxDone, faults, slow, elapsed, busy>>
  /\ UNCHANGED <<saverVars, getVars>>

\* Loader.handleResourcePatch: step := time.Second, cut to what is left of d
Step(left) == IF Second > left THEN left ELSE Second

Paced_IgnoresSpeed(step, hasHandle, s) == step

\* Loader.handleResourcePatch: the step divided by Handle.Speed()
Paced(step, hasHandle, s) == IF hasHandle THEN step \div s ELSE step

\* Loader.handleResourcePatch: one step of the sleep
SleepStep ==
  /\ lpc = "step"
  /\ LET step == Step(d)
         actual == Paced(step, handle, speed)
     IN  /\ d' = d - step
         /\ sleeps' = Append(sleeps, [nominal |-> step, actual |-> actual])
         /\ elapsed' = elapsed + actual
         /\ lpc' = AfterSleep(d - step)
  /\ UNCHANGED <<input, in, ret, tgt, tracksData, heap, cur, dur, applyOps, applied,
                 handle, pause, speed, ipc, iloaded, sloaded, keys, ctxDone, faults, slow, busy>>
  /\ UNCHANGED <<saverVars, getVars>>

AfterApply_EndsReplay(L) == "done"

AfterApply_StopsOnError(L) == IF L.err THEN "failed" ELSE ret

\* handleResourcePatch returns to the loop of Replay that called it, whatever
\* applyResourcePatch met: neither of them returns an error
AfterApply(L) == ret

AddPast_Unscaled(last, past, hasHandle, s) == IF past > 0 THEN last + past ELSE last

\* Loader.handleResourcePatch: *dur += past, scaled by Handle.Speed()
AddPast(last, past, hasHandle, s) ==
  IF past > 0 THEN last + (IF hasHandle THEN past * s ELSE past) ELSE last

\* Loader.handleResourcePatch: the apply, which takes past, and the update of dur
Apply ==
  /\ lpc = "apply"
  /\ \E oks \in Oks, past \in (IF slow THEN {0, 1200} ELSE {0}) :
       LET L == applyResourcePatch(LState, cur, oks)
       IN  /\ tgt' = L.store
           /\ tracksData' = L.tracks
           /\ applyOps' = L.ops
           /\ faults' = faults - Failed(L.ops)
           /\ dur' = AddPast(dur, past, handle, speed)
           /\ lpc' = AfterApply(L)
           /\ elapsed' = elapsed + past
           /\ busy' = busy + past
  /\ applied' = Append(applied, cur.durationNanosecond)
  /\ UNCHANGED <<input, in, ret, heap, cur, d, sleeps,
                 handle, pause, speed, ipc, iloaded, sloaded, keys, ctxDone, slow>>
  /\ UNCHANGED <<saverVars, getVars>>

LoaderCore == Load \/ ReplayRead \/ Flush \/ HandleEnter \/ SleepStep \/ Apply

(***************************************************************************)
(* The interactive handle: Handle.Input reads keys while Replay runs       *)
(***************************************************************************)
\* keys Handle.Input reads during one replay
MaxKeys == 2

InputRuns == handle /\ lpc \notin {"idle", "load", "done", "failed"}

\* Handle.Input: its loop ends once the context is cancelled
AfterKey == IF ctxDone THEN "exit" ELSE "getch"

\* Handle.Input on Space: Pause unless paused
KeySpace ==
  /\ InputRuns /\ ipc = "getch" /\ keys > 0
  /\ pause' = TRUE
  /\ keys' = keys - 1
  /\ ipc' = AfterKey
  /\ UNCHANGED <<input, in, lpc, ret, tgt, tracksData, heap, cur, d, dur, sleeps, applyOps, applied,
                 handle, speed, iloaded, sloaded, ctxDone, faults, slow, elapsed, busy>>
  /\ UNCHANGED <<saverVars, getVars>>

\* Handle.Input on Enter: Continue when paused
KeyEnter ==
  /\ InputRuns /\ ipc = "getch" /\ keys > 0
  /\ pause' = FALSE
  /\ keys' = keys - 1
  /\ ipc' = AfterKey
  /\ UNCHANGED <<input, in, lpc, ret, tgt, tracksData, heap, cur, d, dur, sleeps, applyOps, applied,
                 handle, speed, iloaded, sloaded, ctxDone, faults, slow, elapsed, busy>>
  /\ UNCHANGED <<saverVars, getVars>>

\* Handle.Input on U or D: the load of Handle.SpeedUp or Handle.SpeedDown
KeySpeed ==
  /\ InputRuns /\ ipc = "getch" /\ keys > 0
  /\ iloaded' = speed
  /\ keys' = keys - 1
  /\ ipc' \in {"speedUp", "speedDown"}
  /\ UNCHANGED <<input, in, lpc, ret, tgt, tracksData, heap, cur, d, dur, sleeps, applyOps, applied,
                 handle, pause, speed, sloaded, ctxDone, faults, slow, elapsed, busy>>
  /\ UNCHANGED <<saverVars, getVars>>

\* Handle.SpeedUp, Handle.SpeedDown: the store of the new speed
InputSpeedStore ==
  /\ ipc \in {"speedUp", "speedDown"}
  /\ speed' = IF ipc = "speedUp" THEN SpeedUp(iloaded, speed) ELSE SpeedDown(iloaded, speed)
  /\ ipc' = AfterKey
  /\ UNCHANGED <<input, in, lpc, ret, tgt, tracksData, heap, cur, d, dur, sleeps, applyOps, applied,
                 handle, pause, iloaded, sloaded, keys, ctxDone, faults, slow, elapsed, busy>>
  /\ UNCHANGED <<saverVars, getVars>>

\* the context of the replay command is cancelled
Cancel ==
  /\ lpc \notin {"idle", "done", "failed"}
  /\ ~ctxDone
  /\ ctxDone' = TRUE
  /\ UNCHANGED <<input, in, lpc, ret, tgt, tracksData, heap, cur, d, dur, sleeps, applyOps, applied,
                 handle, pause, speed, ipc, iloaded, sloaded, keys, faults, slow, elapsed, busy>>
  /\ UNCHANGED <<saverVars, getVars>>

HandleNext == SchedSpeedDown \/ HandlePause \/ KeySpace \/ KeyEnter \/ KeySpeed \/ InputSpeedStore

(***************************************************************************)
(* The record and replay commands, one after the other                     *)
(***************************************************************************)
(***************************************************************************)
(* The get command and the printers                                        *)
(***************************************************************************)
\* jsonPrinter.Print: [err, w]; w is what it writes.  Writes to the standard
\* output succeed.
jsonPrint(kv) ==
  LET det == DetectMediaType(kv.Value)
  IN  IF ~det.ok
      THEN [err |-> TRUE, w |-> << >>]
      ELSE [err |-> FALSE, w |-> <<[Key |-> kv.Key, form |-> "data", data |-> Convert(det.mt, "json", kv.Value).data]>>]

\* yamlPrinter.Print: the header and the data, or the commented diagnostic
yamlPrint(kv) ==
  LET det == DetectMediaType(kv.Value)
  IN  IF ~det.ok
      THEN [err |-> FALSE, w |-> <<[Key |-> kv.Key, form |-> "raw", data |-> kv.Value]>>]
      ELSE [err |-> FALSE, w |-> <<[Key |-> kv.Key, form |-> "data", data |-> Convert(det.mt, "yaml", kv.Value).data]>>]

\* printer.NewPrinter(os.Stdout, flags.Output) and its Print
pPrint(output, kv) == IF output = "json" THEN jsonPrint(kv) ELSE yamlPrint(kv)

\* the key-values one range read of the whole prefix returns, in key order
RangeRead(store) ==
  LET present == SelectSeq(SrcKeySeq, LAMBDA k : k \in DOMAIN store)
  IN  [i \in DOMAIN present |-> [Key |-> present[i], Value |-> store[present[i]], PrevValue |-> NoValue]]

\* client.WithRevision(r) on a watch: the events at or after r, and the
\* events from now on when r is unset
WatchStart(r) == IF r = 0 THEN Len(events) + 1 ELSE WatchFrom(r)

\* getCommand: the branch on flags.Watch and flags.WatchOnly; the request it
\* issues first
FirstRequest(flags) == IF flags.Watch /\ flags.WatchOnly THEN "watch" ELSE "get"

\* getCommand up to its first request to the store
GetStart ==
  /\ gpc = "start"
  /\ greqs' = Append(greqs, FirstRequest(gflags))
  /\ IF FirstRequest(gflags) = "watch"
     THEN /\ gpc' = "watch"
          /\ gwpos' = WatchStart(grev)
          /\ UNCHANGED <<gq, grev>>
     ELSE /\ gpc' = "get"
          /\ gq' = RangeRead(src)
          /\ grev' = srcRev
          /\ UNCHANGED gwpos
  /\ UNCHANGED <<gflags, printed>>
  /\ UNCHANGED <<saverVars, loaderVars>>

\* etcdclient.Get gives one key-value to p.Print; an error of the callback
\* ends the Get and getCommand returns it
GetDeliver ==
  /\ gpc = "get"
  /\ gq # << >>
  /\ LET r == pPrint(gflags.Output, Head(gq))
     IN  /\ printed' = printed \o r.w
         /\ gpc' = IF r.err THEN "failed" ELSE gpc
  /\ gq' = Tail(gq)
  /\ UNCHANGED <<gflags, greqs, grev, gwpos>>
  /\ UNCHANGED <<saverVars, loaderVars>>

\* etcdclient.Get has returned: the watch from rev with --watch, the end of
\* the command without
GetEnd ==
  /\ gpc = "get"
  /\ gq = << >>
  /\ IF gflags.Watch
     THEN /\ gpc' = "watch"
          /\ greqs' = Append(greqs, "watch")
          /\ gwpos' = WatchStart(grev)
     ELSE /\ gpc' = "done"
          /\ UNCHANGED <<greqs, gwpos>>
  /\ UNCHANGED <<gflags, gq, grev, printed>>
  /\ UNCHANGED <<saverVars, loaderVars>>

\* etcdclient.Watch gives one event to p.Print; an error of the callback ends
\* the watch and getCommand returns it
WatchDeliver ==
  /\ gpc = "watch"
  /\ gwpos <= Len(events)
  /\ LET r == pPrint(gflags.Output, events[gwpos])
     IN  /\ printed' = printed \o r.w
         /\ gpc' = IF r.err THEN "failed" ELSE gpc
  /\ gwpos' = gwpos + 1
  /\ UNCHANGED <<gflags, greqs, gq, grev>>
  /\ UNCHANGED <<saverVars, loaderVars>>

\* the context of the get command is cancelled: the watch terminates
GetCancel ==
  /\ gpc = "watch"
  /\ gpc' = "done"
  /\ UNCHANGED <<gflags, greqs, gq, grev, gwpos, printed>>
  /\ UNCHANGED <<saverVars, loaderVars>>

\* the flags of a get command with -o json or -o yaml
GetFlags == [Watch : BOOLEAN, WatchOnly : BOOLEAN, Output : {"json", "yaml"}]

GetState(flags, at) ==
  /\ gflags \in flags
  /\ gpc = at
  /\ greqs = << >>
  /\ gq = << >>
  /\ grev = 0
  /\ gwpos = 1
  /\ printed = << >>

\* no get command runs
GetIdle == GetState({[Watch |-> FALSE, WatchOnly |-> FALSE, Output |-> "yaml"]}, "idle")

SaverState(flags, at) ==
  /\ src = << >>
  /\ srcRev = 1
  /\ events = << >>
  /\ snapshotOnly \in flags
  /\ spc = at
  /\ rev = 0
  /\ track = << >>
  /\ baseTime = 0
  /\ sclock = 1000
  /\ wpos = 1
  /\ out = << >>

LoaderInit ==
  /\ input = << >>
  /\ in = << >>
  /\ lpc = "idle"
  /\ ret = "read"
  /\ tgt = << >>
  /\ tracksData = << >>
  /\ heap = << >>
  /\ cur = NoValue
  /\ d = 0
  /\ dur = 0
  /\ sleeps = << >>
  /\ applyOps = << >>
  /\ applied = << >>
  /\ handle = FALSE
  /\ pause = FALSE
  /\ speed = 1
  /\ ipc = "getch"
  /\ iloaded = 0
  /\ sloaded = 0
  /\ keys = 0
  /\ ctxDone = FALSE
  /\ faults = 0
  /\ slow = TRUE
  /\ elapsed = 0
  /\ busy = 0

SaverInit == SaverState(BOOLEAN, "start")

Init == SaverInit /\ LoaderInit /\ GetIdle

Next == SrcPut \/ SrcDelete \/ Save \/ Record \/ StopRecord \/ StartReplay \/ LoaderCore

Spec == Init /\ [][Next]_vars

(***************************************************************************)
(* Properties of record followed by replay                                 *)
(***************************************************************************)
\* the object a key-value decodes to, NoValue when it does not decode
Decoded(value) ==
  IF DetectMediaType(value).ok THEN Convert(value.mt, "json", value).data ELSE NoValue

\* the objects a store holds, by key, without their resourceVersion
Held(store) ==
  { [key |-> k, obj |-> SetResourceVersionEmpty(Decoded(store[k]))] :
      k \in { j \in DOMAIN store : Decoded(store[j]) # NoValue /\ GetName(Decoded(store[j])) # "" } }

\* every value decodes to an object with a name and a kind of the catalog
AllRestorable(store) ==
  \A k \in DOMAIN store :
    /\ Decoded(store[k]) # NoValue
    /\ GetName(Decoded(store[k])) # ""
    /\ applyResourceGVR(Decoded(store[k])).ok

\* the object of a watch event
EventObject(ev) == Decoded(IF ev.Value = NoValue THEN ev.PrevValue ELSE ev.Value)

\* the step is Record's callback on an event whose object has a name
RecordsNamed ==
  /\ spc = "record"
  /\ wpos' = wpos + 1
  /\ EventObject(events[wpos]) # NoValue
  /\ GetName(EventObject(events[wpos])) # ""

\* C1: after Save and Record of any changes, Load and Replay into an empty
\* store leave it holding exactly the objects the source store held when the
\* recording stopped, resourceVersion aside.
C1_RecordReplayRoundTrip ==
  (lpc = "done" /\ ~snapshotOnly) => Held(tgt) = Held(src)

C6_TrackKeyedByResource ==
  [][RecordsNamed =>
       LET o == EventObject(events[wpos])
       IN  (KObj(o) \in DOMAIN track /\ GroupVersionKind(track[KObj(o)]) # GroupVersionKind(o))
             => (KObj(o) \in DOMAIN track' /\ track'[KObj(o)] = track[KObj(o)])]_vars

\* C7: the resource of a recorded ResourcePatch is the resource under which
\* Load stores a snapshot object of the same kind.
C7_RecordedResourceIsCatalogPlural ==
  [][(RecordsNamed /\ Len(out') = Len(out) + 1) =>
       out'[Len(out')].resource.Resource = applyResourceGVR(EventObject(events[wpos])).Resource]_vars

MaxStream == 3

PodObject == [apiVersion |-> CoreV1, kind |-> "Pod", namespace |-> "d", name |-> "x", spec |-> 1]

Patch(gvr, method, template, t) ==
  [kind |-> ResourcePatchType.Kind, apiVersion |-> ResourcePatchType.APIVersion,
   resource |-> gvr, target |-> [Name |-> "x", Namespace |-> "d"],
   method |-> method, template |-> template, durationNanosecond |-> t]

PodsV1 == [Group |-> "", Version |-> "v1", Resource |-> "pods"]
PodsV1beta1 == [Group |-> "", Version |-> "v1beta1", Resource |-> "pods"]

\* the ResourcePatch documents of the streams: create, patch and delete of one
\* pod, a patch through another version of its resource, a patch whose
\* template is empty
PatchDocs ==
  { Patch(PodsV1, "create", PodObject, 0),
    Patch(PodsV1, "patch", [set |-> [spec |-> 2, note |-> "n"], del |-> {}], 0),
    Patch(PodsV1beta1, "patch", [set |-> [spec |-> 3], del |-> {"note"}], 0),
    Patch(PodsV1, "patch", EmptyTemplate, 0),
    Patch(PodsV1, "delete", EmptyTemplate, 0) }

\* the snapshot documents of the streams
SnapshotDocs ==
  { [apiVersion |-> CoreV1, kind |-> "Pod", namespace |-> "d", name |-> "x", spec |-> 1, resourceVersion |-> "7"],
    [apiVersion |-> NetV1, kind |-> "Ingress", namespace |-> "d", name |-> "x", spec |-> 1] }

RECURSIVE SeqsUpTo(_, _)
SeqsUpTo(S, n) ==
  IF n = 0 THEN {<< >>}
  ELSE SeqsUpTo(S, n - 1) \cup { Append(q, x) : q \in { r \in SeqsUpTo(S, n - 1) : Len(r) = n - 1 }, x \in S }

\* streams that differ in what they apply
ApplyStreams ==
  { s \in { p \o q : p \in SeqsUpTo(SnapshotDocs, 1), q \in SeqsUpTo(PatchDocs, MaxStream) } :
      Len(s) <= MaxStream }

\* streams that differ in the order of their durations
OrderStreams ==
  SeqsUpTo({ Patch(PodsV1, "create", PodObject, t) : t \in {0, 1500, 3000} }, W + 1)

\* failures of the target store during one replay
MaxFaults == 1

\* the replay command has opened the stream; the reader reads at most budget keys
ReplayState(streams, budget, terminal, storeFails, slowApply) ==
  /\ SaverState({FALSE}, "stopped")
  /\ GetIdle
  /\ input \in streams
  /\ in = input
  /\ lpc = "load"
  /\ ret = "read"
  /\ tgt = << >>
  /\ tracksData = << >>
  /\ heap = << >>
  /\ cur = NoValue
  /\ d = 0
  /\ dur = 0
  /\ sleeps = << >>
  /\ applyOps = << >>
  /\ applied = << >>
  /\ handle = terminal
  /\ pause = FALSE
  /\ speed = 1
  /\ ipc = "getch"
  /\ iloaded = 0
  /\ sloaded = 0
  /\ keys = budget
  /\ ctxDone = FALSE
  /\ faults = storeFails
  /\ slow = slowApply
  /\ elapsed = 0
  /\ busy = 0

ReplayInit(streams, terminal, storeFails, slowApply) == ReplayState(streams, IF terminal THEN MaxKeys ELSE 0, terminal, storeFails, slowApply)

\* replay without a terminal
SpecLoader ==
  /\ \/ ReplayInit(ApplyStreams, FALSE, MaxFaults, FALSE)
     \/ ReplayInit(OrderStreams, FALSE, 0, FALSE)
  /\ [][LoaderCore]_vars

\* a snapshot object of a kind the catalog does not hold
Widget == [apiVersion |-> [g |-> "example.com", v |-> "v1"], kind |-> "Widget", namespace |-> "d", name |-> "x", spec |-> 1]

\* a ResourcePatch document whose duration is no number
Unconvertible ==
  [kind |-> ResourcePatchType.Kind, apiVersion |-> ResourcePatchType.APIVersion,
   resource |-> PodsV1, target |-> [Name |-> "x", Namespace |-> "d"],
   method |-> "create", template |-> PodObject, durationText |-> "1s"]

\* the documents of the streams that hold documents out of place
MixedDocs ==
  SnapshotDocs \cup {Widget, Undecodable, Unconvertible}
    \cup { Patch(PodsV1, "create", PodObject, t) : t \in {0, 1500} }

MixedStreams == SeqsUpTo(MixedDocs, MaxStream)

\* replay of streams that hold documents out of place
SpecStream ==
  /\ ReplayInit(MixedStreams, FALSE, 0, FALSE)
  /\ [][LoaderCore]_vars

\* replay in a terminal, with the input reader and the cancellation
SchedStreams == SeqsUpTo({ Patch(PodsV1, "create", PodObject, t) : t \in {0, 1500} }, 2)

SpecSched ==
  /\ ReplayInit(SchedStreams, TRUE, 0, TRUE)
  /\ [][LoaderCore \/ HandleNext \/ Cancel]_vars

(***************************************************************************)
(* Properties of the replay                                                *)
(***************************************************************************)
\* the step is a call of applyResourcePatch
AppliesPatch == lpc = "apply" /\ applied' # applied

\* the step is Load's apply of a snapshot object
LoadsObject == lpc = "load" /\ in' # in

\* the step issues a Put or a Delete to the store
IssuesWrite == \E i \in DOMAIN applyOps' : applyOps'[i].op \in {"put", "delete"}

\* C3: while the handle's pause flag is true the loader issues no Put and no
\* Delete, whatever the interleaving of the input reader with the scheduler.
C3_NoWriteWhilePaused ==
  [][(handle /\ pause) => ~(AppliesPatch /\ IssuesWrite)]_vars

\* C4: once the context is cancelled no call of applyResourcePatch begins, not
\* even for the patch whose sleep or pause wait was in progress.
C4_NoApplyAfterCancel ==
  [][ctxDone => ~AppliesPatch]_vars

\* the durations of the ResourcePatch documents of a stream, in their order
RECURSIVE PatchDurations(_)
PatchDurations(s) ==
  IF s = << >> THEN << >>
  ELSE IF Decodes(Head(s)) /\ IsResourcePatch(Head(s)) /\ Converts(Head(s))
  THEN <<Head(s).durationNanosecond>> \o PatchDurations(Tail(s))
  ELSE PatchDurations(Tail(s))

Sorted(q) == \A i, j \in DOMAIN q : i < j => q[i] <= q[j]

\* the position of q[i] once q is sorted by duration, arrival breaking ties
SortedPos(q, i) ==
  Cardinality({ k \in DOMAIN q : q[k] < q[i] }) + Cardinality({ k \in 1..i : q[k] = q[i] })

Distance(a, b) == IF a >= b THEN a - b ELSE b - a

\* every patch is fewer than W positions away from its sorted position
WithinWindow(q) == \A i \in DOMAIN q : Distance(SortedPos(q, i), i) < W

Count(q, v) == Cardinality({ i \in DOMAIN q : q[i] = v })

\* C5: a stream whose patches are all fewer than W positions away from their
\* place in duration order is applied in non-decreasing duration order, and
\* in full once Replay returns.
C5_WindowOrder ==
  WithinWindow(PatchDurations(input)) =>
     /\ Sorted(applied)
     /\ lpc = "done" =>
          /\ Len(applied) = Len(PatchDurations(input))
          /\ \A i \in DOMAIN applied : Count(applied, applied[i]) = Count(PatchDurations(input), applied[i])

C5_Witness ==
  /\ lpc = "done"
  /\ Len(applied) = W + 1
  /\ ~Sorted(PatchDurations(input))
  /\ WithinWindow(PatchDurations(input))
  /\ Sorted(applied)

\* the operation an apply ended with, when the apply succeeded
Written(ops) == ops[Len(ops)]
Succeeded(ops) == ops # << >> /\ (\A i \in DOMAIN ops : ops[i].ok) /\ Written(ops).op # "get"

\* the cache entry of the target is what the apply wrote, or absent
CacheFollows(gvr, key) ==
  IF Written(applyOps').op = "put"
  THEN /\ <<gvr, key>> \in DOMAIN tracksData'
       /\ JSONBytes(tracksData'[<<gvr, key>>]) = Convert(Written(applyOps').value.mt, "json", Written(applyOps').value)
       /\ tgt'[Written(applyOps').key] = Written(applyOps').value
  ELSE <<gvr, key>> \notin DOMAIN tracksData'

\* C9: after every snapshot object Load applies and every ResourcePatch Replay
\* applies with success, the cache entry of the target is the JSON just written
\* for create and patch, and absent for delete.
C9_CacheIsWritten ==
  [][/\ (LoadsObject /\ Succeeded(applyOps')) =>
          LET g == applyResourceGVR(Head(in))
          IN  CacheFollows([Group |-> g.Group, Version |-> g.Version, Resource |-> g.Resource], KObj(Head(in)))
     /\ (AppliesPatch /\ Succeeded(applyOps')) =>
          /\ (cur.method = "delete") = (Written(applyOps').op = "delete")
          /\ CacheFollows(cur.resource, cur.target)]_vars

C9_Witness ==
  /\ cur # NoValue
  /\ cur.method = "patch"
  /\ Len(applied) >= 2
  /\ Succeeded(applyOps)
  /\ Written(applyOps).op = "put"
  /\ <<cur.resource, cur.target>> \in DOMAIN tracksData
  /\ JSONBytes(tracksData[<<cur.resource, cur.target>>]) = Convert(Written(applyOps).value.mt, "json", Written(applyOps).value)
  /\ "note" \in DOMAIN tracksData[<<cur.resource, cur.target>>]

\* the step applies a patch whose target has an entry in the cache
AppliesCachedPatch ==
  /\ AppliesPatch
  /\ cur.method = "patch"
  /\ <<cur.resource, cur.target>> \in DOMAIN tracksData

NoGet == \A i \in DOMAIN applyOps' : applyOps'[i].op # "get"

\* the one Put of the step writes the cached object merged with the patch
OnePutOfMerge ==
  /\ Len(applyOps') = 1
  /\ applyOps'[1].op = "put"
  /\ Convert(applyOps'[1].value.mt, "json", applyOps'[1].value)
       = JSONBytes(StrategicMergeMapPatch(tracksData[<<cur.resource, cur.target>>], cur.template))

\* the template is a merge patch that applies to an object of a registered kind
Merges(obj, template) == SchemeKnows(GroupVersionKind(obj)) /\ DOMAIN template = {"set", "del"}

\* C10 as stated: a patch whose target is in the cache issues no Get and
\* exactly one Put, of the cached object merged with the patch.
C10_CachedPatchOnePut ==
  [][AppliesCachedPatch => (NoGet /\ OnePutOfMerge)]_vars

\* C10: a patch whose target is in the cache issues no Get and at most one Put;
\* when its template merges into the cached object it issues exactly one Put,
\* of the merge, and otherwise no Put, and store and cache stay as they are.
C10_CachedPatchAtMostOnePut ==
  [][AppliesCachedPatch =>
       /\ NoGet
       /\ IF Merges(tracksData[<<cur.resource, cur.target>>], cur.template)
          THEN OnePutOfMerge
          ELSE applyOps' = << >> /\ tgt' = tgt /\ tracksData' = tracksData]_vars

C10_Witness ==
  /\ cur # NoValue
  /\ cur.method = "patch"
  /\ Len(applyOps) = 1
  /\ applyOps[1].op = "put" /\ applyOps[1].ok
  /\ Len(applied) >= 2
  /\ <<cur.resource, cur.target>> \in DOMAIN tracksData
  /\ tracksData[<<cur.resource, cur.target>>].spec = 2

(***************************************************************************)
(* Properties of Load and Replay on streams with documents out of place    *)
(***************************************************************************)
\* the stream from its first ResourcePatch document on
RECURSIVE FromFirstPatch(_)
FromFirstPatch(s) ==
  IF s = << >> THEN << >>
  ELSE IF Decodes(Head(s)) /\ IsResourcePatch(Head(s)) THEN s
  ELSE FromFirstPatch(Tail(s))

\* every ResourcePatch document of the stream converts
AllConvert(s) ==
  \A i \in DOMAIN s : (Decodes(s[i]) /\ IsResourcePatch(s[i])) => Converts(s[i])

\* the step is one Put attempt of the object, and nothing else
OnePutOf(obj) ==
  /\ Len(applyOps') = 1
  /\ applyOps'[1].op = "put"
  /\ Convert(applyOps'[1].value.mt, "json", applyOps'[1].value) = JSONBytes(SetResourceVersionEmpty(obj))

\* Load ends: it leaves the stream at its first ResourcePatch, writes nothing,
\* and Replay's first turn takes that document into the heap
Boundary ==
  /\ (lpc = "load" /\ lpc' # "load") =>
       /\ in' = FromFirstPatch(input)
       /\ tgt' = tgt /\ applied' = << >> /\ heap' = << >>
  /\ (lpc = "read" /\ in = FromFirstPatch(input) /\ in' # in /\ Converts(Head(in))) =>
       heap' = <<Head(in)>>
  /\ (lpc' = "done" /\ AllConvert(input)) =>
       /\ Len(applied') = Len(PatchDurations(input))
       /\ \A i \in DOMAIN applied' : Count(applied', applied'[i]) = Count(PatchDurations(input), applied'[i])

\* C11 as stated: Load makes one Put attempt for every document before the
\* first ResourcePatch, in stream order, stops at that ResourcePatch without
\* writing it and leaves it to Replay as its first document; no ResourcePatch
\* is lost or applied twice.
C11_LoadPutsEveryDocument ==
  [][/\ (LoadsObject /\ Decodes(Head(in))) => OnePutOf(Head(in))
     /\ Boundary]_vars

\* C11: Load makes one Put attempt for every document before the first
\* ResourcePatch whose kind the catalog resolves, and no store operation for a
\* document of another kind; it stops at the first ResourcePatch without
\* writing it and leaves it to Replay as its first document; no ResourcePatch
\* is lost or applied twice.
C11_LoadPutsCatalogDocuments ==
  [][/\ (LoadsObject /\ Decodes(Head(in))) =>
          IF applyResourceGVR(Head(in)).ok
          THEN OnePutOf(Head(in))
          ELSE applyOps' = << >> /\ tgt' = tgt /\ tracksData' = tracksData
     /\ Boundary]_vars

C11_Witness ==
  /\ lpc = "done"
  /\ Len(input) = 3
  /\ input[1] \in SnapshotDocs
  /\ IsResourcePatch(input[2]) /\ IsResourcePatch(input[3])
  /\ AllConvert(input)
  /\ Len(applied) = 2
  /\ tgt # << >>

\* C12: a document of the timeline that does not decode or does not convert
\* into a ResourcePatch is skipped: Replay returns no error because of it and
\* every other ResourcePatch of the stream, those in the heap included, is
\* applied.
C12_MalformedSkipped ==
  /\ lpc # "failed"
  /\ lpc = "done" => Len(applied) = Len(PatchDurations(input))

\* C13: a ResourcePatch whose apply fails (merge, Get, Put or Delete) is
\* skipped: the replay goes on, Replay does not fail, and every patch of the
\* stream has been handed to the scheduler and applied when it returns.
C13_FailedApplySkipped ==
  [][/\ AppliesPatch => lpc' = ret
     /\ lpc' # "failed"
     /\ lpc' = "done" => Len(applied') = Len(PatchDurations(input))]_vars

C13_Witness ==
  /\ lpc = "done"
  /\ Len(input) >= 3
  /\ Len(PatchDurations(input)) = Len(input)
  /\ faults < MaxFaults
  /\ Len(applied) = Len(input)
  /\ Succeeded(applyOps)

(***************************************************************************)
(* Properties of the saver on values that do not decode                    *)
(***************************************************************************)
\* the documents of the stream that are snapshot objects
InStream(obj) == \E i \in DOMAIN out' : out'[i] = obj

\* C14: a key-value whose value does not decode does not abort Save or
\* Record: the entry is skipped, every other key-value of the scan is written
\* to the stream and every later watch event is processed.
C14_DecodeFailureSkipped ==
  [][/\ (spc = "start" /\ spc' # "start") =>
          /\ spc' # "failed"
          /\ \A k \in DOMAIN src :
               (Decoded(src[k]) # NoValue /\ GetName(Decoded(src[k])) # "") => InStream(Decoded(src[k]))
     /\ (spc = "record" /\ wpos' # wpos) => spc' = "record"]_vars

(***************************************************************************)
(* Properties of the speed of the handle                                   *)
(***************************************************************************)
\* U and D keys Handle.Input reads during one replay
SpeedKeys == 10

\* replay in a terminal where only U and D are pressed
SpecSpeed ==
  /\ ReplayState(SchedStreams, SpeedKeys, TRUE, 0, TRUE)
  /\ [][LoaderCore \/ SchedSpeedDown \/ HandlePause \/ KeySpeed \/ InputSpeedStore]_vars

\* the step ends a call of SpeedDown by the scheduler that no other call overlapped
AloneFromScheduler == lpc = "speedDown" /\ lpc' # lpc /\ ipc = "getch" /\ sloaded = speed

\* C15: the speed of the handle is an integer in 1..10, under every
\* interleaving of the calls of the input reader and of the scheduler; it
\* starts at 1, SpeedUp at 10 and SpeedDown at 1 leave it as it is, and any
\* other call that no call overlaps changes it by exactly 1.
C15_SpeedInRange ==
  [][/\ speed \in 1..MaxSpeed /\ speed' \in 1..MaxSpeed
     /\ (lpc = "load" /\ applied = << >>) => speed = 1
     /\ (ipc = "speedUp" /\ ipc' # ipc /\ lpc # "speedDown" /\ iloaded = speed) =>
          speed' = IF speed = MaxSpeed THEN speed ELSE speed + 1
     /\ (ipc = "speedDown" /\ ipc' # ipc /\ lpc # "speedDown" /\ iloaded = speed) =>
          speed' = IF speed = 1 THEN speed ELSE speed - 1
     /\ AloneFromScheduler =>
          speed' = IF speed = 1 THEN speed ELSE speed - 1]_vars

C15_Witness ==
  /\ speed = MaxSpeed
  /\ iloaded = MaxSpeed
  /\ ipc = "getch"
  /\ keys = 0

(***************************************************************************)
(* Properties of the scheduler's clock                                     *)
(***************************************************************************)
\* replay at speed 1 without a pause: with and without a terminal, no key
SpecClock ==
  /\ \E terminal \in BOOLEAN : ReplayState(OrderStreams, 0, terminal, 0, TRUE)
  /\ [][LoaderCore \/ SchedSpeedDown \/ HandlePause]_vars

Last(q) == q[Len(q)]

\* C16: at speed 1 and without a pause, the replay of a stream whose durations
\* do not decrease and end at N takes, from the start of its first patch to
\* the end of its last apply, at least N - 1s and at most N plus the time of
\* all applies plus 1s.
C16_WallClock ==
  (/\ lpc = "done" /\ speed = 1 /\ ~pause
   /\ PatchDurations(input) # << >>
   /\ Sorted(PatchDurations(input))) =>
     /\ elapsed >= Last(PatchDurations(input)) - Second
     /\ elapsed <= Last(PatchDurations(input)) + busy + Second

C16_Witness ==
  /\ lpc = "done"
  /\ handle
  /\ Sorted(PatchDurations(input))
  /\ Len(applied) = W + 1
  /\ Last(applied) = 3000
  /\ busy >= 2400
  /\ elapsed > 3000

(***************************************************************************)
(* The get command on a store that changes                                 *)
(***************************************************************************)
\* the get command is called with its flags; no record or replay runs
GetInit == SaverState({FALSE}, "start") /\ LoaderInit /\ GetState(GetFlags, "start")

SpecGet ==
  /\ GetInit
  /\ [][SrcPut \/ SrcDelete \/ GetStart \/ GetDeliver \/ GetEnd \/ WatchDeliver \/ GetCancel]_vars

\* the Get of the get command gives its callback a key-value that does not decode
DeliversUndecodable ==
  /\ gpc = "get"
  /\ gq # << >>
  /\ ~DetectMediaType(Head(gq).Value).ok
  /\ gq' = Tail(gq)

\* C17: in the json and yaml output modes a key-value whose value fails the
\* detection of the media type or the conversion makes Print write a
\* commented diagnostic and return no error: the command does not fail and
\* the key-values after it are still given to the printer.
C17_DecodeFailureIsDiagnostic ==
  [][DeliversUndecodable =>
       /\ gpc' = "get"
       /\ printed' = Append(printed, [Key |-> Head(gq).Key, form |-> "raw", data |-> Head(gq).Value])]_vars

\* C18: with --watch-only the get command issues no list/get request to the
\* store and starts a watch, whether or not --watch is given as well.
C18_WatchOnlyIssuesOnlyAWatch ==
  (gflags.WatchOnly /\ gpc \notin {"idle", "start"}) => greqs = <<"watch">>

(***************************************************************************)
(* The scheduler: lastApplied is dur of Replay                             *)
(***************************************************************************)
\* the patch the scheduler works on is more than a second behind dur
Late == cur # NoValue /\ cur.durationNanosecond - dur < (-1) * Second

\* C19: lastApplied never decreases during a Replay, with or without an
\* interactive handle attached.
C19_LastAppliedNeverDecreases == [][dur' >= dur]_vars

\* C19, amended: without a handle lastApplied never decreases; with a handle
\* it decreases only for a patch more than a second late, where the scheduler
\* lowers the speed and sets lastApplied to the duration of that patch.
C19_LastAppliedDecreasesOnlyWhenLate ==
  [][dur' < dur =>
       /\ handle
       /\ lpc = "speedDown"
       /\ Late
       /\ dur' = cur.durationNanosecond]_vars

\* without a handle a late patch is at its apply and dur is as it was
C19_Witness ==
  /\ ~handle
  /\ lpc = "apply"
  /\ Late
  /\ applied # << >>

RECURSIVE SumNominal(_)
SumNominal(q) == IF q = << >> THEN 0 ELSE Head(q).nominal + SumNominal(Tail(q))

\* C20: for a patch with duration t and d = t - lastApplied: when d > 0 the
\* scheduler sets lastApplied to t and has slept d, in steps, when it applies
\* the patch; when -1s <= d <= 0 it applies the patch without a sleep and
\* lastApplied is unchanged up to the apply.
C20_SwitchOnD ==
  [][/\ (lpc = "hrp" /\ cur.durationNanosecond - dur > 0) =>
          /\ dur' = cur.durationNanosecond
          /\ d' = cur.durationNanosecond - dur
          /\ sleeps' = << >>
          /\ lpc' \in {"pauseInLoop", "step"}
     /\ (lpc = "hrp" /\ cur.durationNanosecond - dur <= 0 /\ ~Late) =>
          /\ dur' = dur
          /\ d' = 0
          /\ sleeps' = << >>
          /\ lpc' \in {"pauseFinal", "apply"}
     /\ lpc \in {"pauseInLoop", "step", "pauseFinal"} =>
          /\ dur' = dur
          /\ d' + SumNominal(sleeps') = d + SumNominal(sleeps)
          /\ lpc' \in {"pauseFinal", "apply"} => d' = 0
          /\ lpc = "pauseFinal" => sleeps' = sleeps]_vars

\* a patch 1.5s after lastApplied is at its apply after two steps of sleep
C20_Witness ==
  /\ lpc = "apply"
  /\ applied # << >>
  /\ dur = cur.durationNanosecond
  /\ Len(sleeps) = 2
  /\ SumNominal(sleeps) = 1500

\* C21: for a patch more than a second late (d < -1s) the scheduler sets
\* lastApplied to the duration of the patch and goes to the apply without a
\* sleep, with or without a handle; with a handle it first lowers the speed
\* by one step, not below 1.
C21_LatePatchResetsLastApplied ==
  [][/\ (lpc = "hrp" /\ Late /\ handle) => lpc' = "speedDown"
     /\ (lpc = "speedDown") => speed' = (IF speed > 1 THEN speed - 1 ELSE 1)
     /\ (lpc \in {"hrp", "speedDown"} /\ Late /\ lpc' # "speedDown") =>
          /\ dur' = cur.durationNanosecond
          /\ d' = 0
          /\ sleeps' = << >>
          /\ lpc' \in {"pauseFinal", "apply"}]_vars

C23_ApplyTimeAdded ==
  [][applied' # applied =>
       /\ lpc = "apply"
       /\ dur' = dur + (IF busy' - busy > 0
                        THEN (IF handle THEN (busy' - busy) * speed ELSE busy' - busy)
                        ELSE 0)]_vars

\* with a handle at speed 2 the first apply took 1.2s: lastApplied is 2.4s
\* after the duration of the patch
C23_Witness ==
  /\ handle
  /\ speed = 2
  /\ Len(applied) = 1
  /\ busy = 1200
  /\ dur = applied[1] + 2400

(***************************************************************************)
(* Patches whose target is not in the cache of the loader                  *)
(***************************************************************************)
\* patches through the other version of the resource, which the cache does
\* not hold after a create through v1: one that merges, one whose template
\* is empty
UncachedDocs ==
  { Patch(PodsV1, "create", PodObject, 0),
    Patch(PodsV1beta1, "patch", [set |-> [spec |-> 3], del |-> {"note"}], 0),
    Patch(PodsV1beta1, "patch", EmptyTemplate, 0),
    Patch(PodsV1, "delete", EmptyTemplate, 1500) }

UncachedStreams ==
  { s \in { p \o q : p \in SeqsUpTo(SnapshotDocs, 1), q \in SeqsUpTo(UncachedDocs, MaxStream) } :
      Len(s) <= MaxStream }

SpecUncached ==
  /\ ReplayInit(UncachedStreams, FALSE, MaxFaults, FALSE)
  /\ [][LoaderCore]_vars

\* the step applies a patch whose target has no entry in the cache
AppliesUncachedPatch ==
  /\ AppliesPatch
  /\ cur.method = "patch"
  /\ <<cur.resource, cur.target>> \notin DOMAIN tracksData

TargetKey == StoreKey(GroupResource(cur.resource), cur.target.Name, cur.target.Namespace)

\* the first operation of the step is a point Get of the target
GetsTarget ==
  /\ applyOps' # << >>
  /\ applyOps'[1].op = "get"
  /\ applyOps'[1].key = TargetKey

\* that Get succeeds and the store holds a value under the key
GetReturnsValue == applyOps'[1].ok /\ TargetKey \in DOMAIN tgt

\* the JSON of the value the store holds for the target
StoredObject == Convert(tgt[TargetKey].mt, "json", tgt[TargetKey]).data

\* the step ends with one Put after the Get, of the stored object merged with
\* the patch
PutOfMergeFollows ==
  /\ Len(applyOps') = 2
  /\ applyOps'[2].op = "put"
  /\ applyOps'[2].key = TargetKey
  /\ Convert(applyOps'[2].value.mt, "json", applyOps'[2].value)
       = JSONBytes(StrategicMergeMapPatch(StoredObject, cur.template))

\* C24 as stated: a patch whose target is not in the cache issues a point
\* Get; when the Get fails or returns no value there is no Put and no cache
\* entry, and when it returns a value the merge of the patch onto that value
\* is Put.
C24_UncachedPatchGetThenPut ==
  [][AppliesUncachedPatch =>
       /\ GetsTarget
       /\ IF GetReturnsValue
          THEN PutOfMergeFollows
          ELSE Len(applyOps') = 1 /\ tgt' = tgt /\ tracksData' = tracksData]_vars

\* C24: a patch whose target is not in the cache issues a point Get; when the
\* Get fails or returns no value there is no Put and no cache entry; when it
\* returns a value that value is cached, and the merge is Put if the template
\* merges into it, and otherwise there is no Put.
C24_UncachedPatchGetThenMerge ==
  [][AppliesUncachedPatch =>
       /\ GetsTarget
       /\ IF ~GetReturnsValue
          THEN Len(applyOps') = 1 /\ tgt' = tgt /\ tracksData' = tracksData
          ELSE IF Merges(StoredObject, cur.template)
          THEN PutOfMergeFollows
          ELSE /\ Len(applyOps') = 1
               /\ tgt' = tgt
               /\ tracksData' = (<<cur.resource, cur.target>> :> StoredObject) @@ tracksData]_vars

C24_Witness ==
  /\ cur # NoValue
  /\ cur.method = "patch"
  /\ cur.resource = PodsV1beta1
  /\ Len(applyOps) = 2
  /\ applyOps[1].op = "get" /\ applyOps[1].ok
  /\ applyOps[2].op = "put" /\ applyOps[2].ok
  /\ tracksData[<<PodsV1beta1, cur.target>>].spec = 3

(***************************************************************************)
(* The stream of a recording                                               *)
(***************************************************************************)
\* the step is Save's return to recordCommand, which goes on to Record
SaveReturns == spc = "start" /\ spc' = "record"

\* the step is the callback of Record's watch on the next event
RecordsEvent == spc = "record" /\ wpos' = wpos + 1

RecordedDurations(stream) ==
  LET ps == SelectSeq(stream, IsResourcePatch)
  IN  [i \in DOMAIN ps |-> ps[i].durationNanosecond]

\* C26: the first ResourcePatch Record builds has duration 0 and sets the base
\* time to the clock; every later one has the clock at its build minus the
\* base time; the durations do not decrease along the stream (the clock of
\* the model never goes back).
C26_RecordedDurations ==
  [][(RecordsNamed /\ sclock' >= sclock) =>
       /\ Last(out').durationNanosecond = (IF baseTime = 0 THEN 0 ELSE sclock' - baseTime)
       /\ baseTime' = (IF baseTime = 0 THEN sclock' ELSE baseTime)
       /\ RecordedDurations(out')[1] = 0
       /\ Sorted(RecordedDurations(out'))]_vars

C26_Witness ==
  /\ RecordedDurations(out) = <<0, 1500>>
  /\ sclock = baseTime + 1500

RECURSIVE SumActual(_)
SumActual(q) == IF q = << >> THEN 0 ELSE Head(q).actual + SumActual(Tail(q))

\* C27: without a handle Replay never polls the pause, never changes the
\* speed, and for a patch with d > 0 it has slept exactly d when it applies
\* the patch.
C27_NoHandleNoPacing ==
  [][~handle =>
       /\ lpc' \notin {"pauseInLoop", "pauseFinal", "speedDown"}
       /\ speed' = speed /\ pause' = pause
       /\ (lpc = "hrp" /\ cur.durationNanosecond - dur > 0) =>
            (d' = cur.durationNanosecond - dur /\ sleeps' = << >> /\ lpc' = "step")
       /\ (lpc = "step") =>
            /\ d' + SumActual(sleeps') = d + SumActual(sleeps)
            /\ (lpc' = "apply") = (d' = 0)
            /\ lpc' \in {"step", "apply"}]_vars

\* without a handle a patch 1.5s ahead is at its apply after sleeps of 1s
\* and 0.5s
C27_Witness ==
  /\ ~handle
  /\ lpc = "apply"
  /\ cur.durationNanosecond = 3000
  /\ sleeps = <<[nominal |-> 1000, actual |-> 1000], [nominal |-> 500, actual |-> 500]>>

(***************************************************************************)
(* The size of the reorder heap                                            *)
(***************************************************************************)
\* the step is the read of a ResourcePatch document by the loop of Replay
ReadsPatch ==
  /\ lpc = "read"
  /\ in' # in
  /\ Decodes(Head(in)) /\ IsResourcePatch(Head(in)) /\ Converts(Head(in))

\* C28: the heap never holds more than W patches: a push that brings it to W
\* is followed, before the next document is read, by the pop of a patch of
\* the least duration, which goes to the scheduler; a push that leaves it
\* below W gives nothing out.
C28_HeapAtMostW ==
  [][/\ (lpc' = "read" => Len(heap') < W)
     /\ ReadsPatch =>
          LET h == Append(heap, Head(in))
          IN  /\ Len(h) <= W
              /\ IF Len(h) = W
                 THEN /\ lpc' = "hrp"
                      /\ Len(heap') = W - 1
                      /\ \E i \in DOMAIN h : cur' = h[i] /\ heap' = Remove(h, i)
                      /\ \A j \in DOMAIN h : cur'.durationNanosecond <= h[j].durationNanosecond
                 ELSE heap' = h /\ lpc' = "read" /\ cur' = cur]_vars

\* the push of the patch number W has given the patch of duration 0 to the
\* scheduler and left later ones in the heap, with documents still to read
C28_Witness ==
  /\ lpc = "hrp" /\ ret = "read"
  /\ in # << >>
  /\ Len(heap) = W - 1
  /\ cur.durationNanosecond = 0
  /\ \E i \in DOMAIN heap : heap[i].durationNanosecond = 3000

(***************************************************************************)
(* Objects without a name                                                  *)
(***************************************************************************)
\* the value decodes to an object whose name is empty
Nameless(value) == Decoded(value) # NoValue /\ GetName(Decoded(value)) = ""

\* the keys of a store whose objects have a name
NamedKeys(store) == { k \in DOMAIN store : Decoded(store[k]) # NoValue /\ ~Nameless(store[k]) }

\* the step is Save
Saves == spc = "start" /\ spc' # "start"

\* the step is the callback of Record on an event whose object has no name
RecordsNameless ==
  /\ RecordsEvent
  /\ Nameless(IF events[wpos].Value = NoValue THEN events[wpos].PrevValue ELSE events[wpos].Value)

\* C29: Save and Record skip a key-value whose object has an empty name: no
\* document is written for it, the cache is unchanged, the base time of the
\* recording is not set by it, and no error is returned.
C29_NamelessSkipped ==
  [][/\ Saves =>
          /\ \A i \in DOMAIN out' : GetName(out'[i]) # ""
          /\ \A k \in DOMAIN track' : k.Name # ""
          /\ (\A k \in DOMAIN src : Decoded(src[k]) # NoValue) =>
               /\ spc' # "failed"
               /\ Len(out') = Len(out) + Cardinality(NamedKeys(src))
               /\ Cardinality(DOMAIN track') <= Cardinality(NamedKeys(src))
     /\ RecordsNameless =>
          /\ out' = out
          /\ track' = track
          /\ baseTime' = baseTime
          /\ spc' = "record"]_vars

\* the store held only an object without a name at Save; the watch delivered
\* its write again and then the write of a pod, whose patch is the first and
\* has duration 0
C29_Witness ==
  /\ spc = "stopped"
  /\ Len(events) = 2
  /\ events[1].Key = KStub /\ events[1].ModRevision = rev
  /\ events[2].Key = KPod
  /\ Len(out) = 1
  /\ IsResourcePatch(out[1]) /\ out[1].durationNanosecond = 0
  /\ baseTime # 0

\* C30: every snapshot document of Save and every template of a create that
\* Record writes is without a resourceVersion, whatever the stored value holds.
C30_ResourceVersionCleared ==
  \A i \in DOMAIN out :
    IF IsResourcePatch(out[i])
    THEN out[i].method = "create" => "resourceVersion" \notin DOMAIN out[i].template
    ELSE "resourceVersion" \notin DOMAIN out[i]

(***************************************************************************)
(* Concurrent calls of SpeedUp and SpeedDown                               *)
(***************************************************************************)
\* the speeds at which neither SpeedUp nor SpeedDown meets its limit
MidSpeeds == { s \in 1..MaxSpeed : Down(s) # 0 /\ Up(s) <= MaxSpeed /\ s # 1 }

\* C31: SpeedUp and SpeedDown are atomic read-modify-write operations: each
\* call changes by one the speed that is there when it stores, so a SpeedUp
\* of the input reader concurrent with a SpeedDown of the scheduler, both
\* from a speed s in 2..9, leaves the speed at s in every interleaving.
C31_SpeedUpdatesAtomic ==
  [][/\ (lpc = "speedDown" /\ lpc' # lpc /\ speed \in MidSpeeds /\ sloaded \in MidSpeeds) =>
          speed' = speed - 1
     /\ (ipc = "speedUp" /\ ipc' # ipc /\ speed \in MidSpeeds /\ iloaded \in MidSpeeds) =>
          speed' = speed + 1
     /\ (ipc = "speedDown" /\ ipc' # ipc /\ speed \in MidSpeeds /\ iloaded \in MidSpeeds) =>
          speed' = speed - 1]_vars

(***************************************************************************)
(* The cache of the loader against the store                               *)
(***************************************************************************)
\* Replay is between two applies
BetweenApplies == lpc \in {"load", "read", "flush", "hrp", "done"}

\* C32: between applies every entry (GVR, namespace, name) of the cache is the
\* JSON of the value the store holds under the key of (group, resource,
\* namespace, name), the loader being the only writer; also after an apply
\* that failed and when two versions of a resource address the same object.
C32_CacheMirrorsStore ==
  BetweenApplies =>
    \A e \in DOMAIN tracksData :
      LET skey == StoreKey(GroupResource(e[1]), e[2].Name, e[2].Namespace)
      IN  /\ skey \in DOMAIN tgt
          /\ JSONBytes(tracksData[e]) = Convert(tgt[skey].mt, "json", tgt[skey])

(***************************************************************************)
(* Termination of Replay                                                   *)
(***************************************************************************)
\* streams of up to W+1 patches, in every order of two durations
LiveStreams ==
  SeqsUpTo({ Patch(PodsV1, "create", PodObject, t) : t \in {0, 1500} }, W + 1)

\* replay, with and without a terminal where Space and Enter are pressed; the
\* context is not cancelled; the goroutine of Replay keeps running
SpecLive ==
  /\ \E terminal \in BOOLEAN : ReplayInit(LiveStreams, terminal, 0, FALSE)
  /\ [][LoaderCore \/ SchedSpeedDown \/ HandlePause \/ KeySpace \/ KeyEnter]_vars
  /\ WF_vars(LoaderCore \/ SchedSpeedDown \/ HandlePause)

\* every patch of the stream has been given to applyResourcePatch once
AppliedEachOnce ==
  /\ Len(applied) = Len(PatchDurations(input))
  /\ \A i \in DOMAIN applied : Count(applied, applied[i]) = Count(PatchDurations(input), applied[i])

\* C33: when the context is never cancelled, every pause is released in the
\* end and every document converts, Replay on a finite stream ends, and it
\* has then given every ResourcePatch of the stream to applyResourcePatch
\* exactly once; no patch is applied more often than the stream holds it.
C33_ReplayTerminates ==
  /\ ([]<>(~pause)) => <>(lpc = "done" /\ AppliedEachOnce)
  /\ [](\A i \in DOMAIN applied : Count(applied, applied[i]) <= Count(PatchDurations(input), applied[i]))

\* a replay in a terminal has ended after a pause and its release, with the
\* W+1 patches of a stream that was out of order all applied
C33_Witness ==
  /\ lpc = "done"
  /\ handle /\ keys = 0 /\ ~pause
  /\ ~Sorted(PatchDurations(input))
  /\ Len(applied) = W + 1
  /\ AppliedEachOnce

(***************************************************************************)
(* Documents that are no ResourcePatch in the timeline                     *)
(***************************************************************************)
\* the step is Replay's read of a document that decodes and is no ResourcePatch
ReadsForeign ==
  /\ lpc = "read"
  /\ in' # in
  /\ Decodes(Head(in)) /\ ~IsResourcePatch(Head(in))

\* the documents the decoder has returned so far
Consumed == SubSeq(input, 1, Len(input) - Len(in))

\* C34: a document that is no ResourcePatch and comes after the first
\* ResourcePatch of the stream is never written to the store: Load does not
\* read past the first ResourcePatch, Replay skips the document, leaving
\* store, cache, heap and lastApplied as they are, and reads on; after Load
\* only the apply of a ResourcePatch changes the store.
C34_ForeignDocumentSkipped ==
  [][/\ ReadsForeign =>
          /\ in' = Tail(in)
          /\ lpc' = "read"
          /\ tgt' = tgt /\ tracksData' = tracksData
          /\ heap' = heap /\ dur' = dur /\ applied' = applied
     /\ (lpc = "load" /\ in' # in) => FromFirstPatch(Consumed) = << >>
     /\ (lpc # "load" /\ tgt' # tgt) => (lpc = "apply" /\ IsResourcePatch(cur))]_vars

\* the stream held an Ingress between two patches: both patches are applied
\* and the store holds no Ingress
C34_Witness ==
  /\ lpc = "done"
  /\ Len(input) = 3
  /\ IsResourcePatch(input[1]) /\ IsResourcePatch(input[3])
  /\ GetKind(input[2]) = "Ingress"
  /\ Len(applied) = 2
  /\ KPod \in DOMAIN tgt
  /\ KIngress \notin DOMAIN tgt

====
